---- MODULE Spec2Model ----
(***************************************************************************)
(* State-initialization protocol of the HDA property package               *)
(* (Intro_to_Prop_Packages_Tutorial.ipynb) and the demonstration cells of  *)
(* Reaction_Prop_Packages_Tutorial.ipynb.                                  *)
(*                                                                         *)
(* blk is an indexed state block: a collection of sub-blocks blk[k], each  *)
(* with the state variables of return_state_var_dict, the derived variable *)
(* dens_mol tied by ideal_gas_eq, and, when config.defined_state is False, *)
(* the constraint mole_fraction_constraint.                                *)
(***************************************************************************)
EXTENDS Integers, Sequences, FiniteSets, TLC

\* ---------------------------------------------------------------- bounds
NumBlocks == 2      \* indices of the indexed block are 1..NumBlocks
NumComps == 2       \* components of component_list are 1..NumComps
MaxVal == 1         \* variable values are 0..MaxVal
MaxUserOps == 2     \* fix/unfix/activate/deactivate calls made by the flowsheet
MaxRuns == 1        \* runs of the protocol started (initialize or prepare_state)

BlockIdx == 1..NumBlocks
Comps == 1..NumComps
Vals == 0..MaxVal

\* The value a state variable holds after construction (its initialize=).
InitVal == 0

\* ------------------------------------------------ state variables of a block
\* return_state_var_dict: the names define_state_vars hands to the framework.
return_state_var_dict == {"flow_mol", "mole_frac_comp", "temperature", "pressure"}

\* add_state_variables: one Var per name, mole_frac_comp indexed by component.
add_state_variables ==
    {<<"flow_mol", 0>>, <<"temperature", 0>>, <<"pressure", 0>>}
        \cup {<<"mole_frac_comp", j>> : j \in Comps}

SVI == add_state_variables

VARIABLES
    keys,           \* blk.keys(): the indices of the sub-blocks
    defined_state,  \* blk[k].config.defined_state
    has_mfc,        \* blk[k] owns a mole_fraction_constraint
    fixed,          \* fixed[k][v]: v.fixed of state variable v of blk[k]
    value,          \* value[k][v]: v.value
    dens_fixed,     \* blk[k].dens_mol.fixed
    mfc_active,     \* blk[k].mole_fraction_constraint.active
    mfc_access,     \* indices k whose blk[k].mole_fraction_constraint was evaluated
    params,         \* blk[k].params: the value of every parameter of the package
    pc,             \* position of the running protocol
    ctx,            \* who runs it: "initialize" (the method) or "script" (a caller
                    \* of the module-level functions), "none" when nothing runs
    entry,          \* the entry point of the running / last protocol run
    args,           \* state_args, state_vars_fixed, hold_state of the run
    flags,          \* the flags prepare_state returned, where they are still held
    trace,          \* the steps of the run so far
    exc,            \* the exception that ended the last call ("none" if none)
    pre,            \* the block right before prepare_state (history)
    solver_calls,   \* calls of solve_indexed_blocks made in the run
    userOps,        \* number of flowsheet calls so far
    runs,           \* number of protocol runs started so far
    demo_fixed,     \* demonstration flowsheet: the variables fixed so far
    demo_dof,       \* demonstration flowsheet: what the last print showed
    enth_in,        \* enth_mol: temperature, reference, coefficients, fractions
    enth_out,       \* enth_mol: the value of the expression last evaluated
    eq_in,          \* equilibrium_constraint: mole fractions and pressure
    eq_out          \* equilibrium_constraint: the relation as last evaluated

blockVars == <<fixed, value, dens_fixed, mfc_active, mfc_access, params>>
configVars == <<keys, defined_state, has_mfc>>
runVars == <<pc, ctx, entry, args, flags, trace, exc, pre, solver_calls>>
mainVars == <<configVars, blockVars, runVars, userOps, runs>>
demoVars == <<demo_fixed, demo_dof>>
enthVars == <<enth_in, enth_out>>
eqVars == <<eq_in, eq_out>>
vars == <<mainVars, demoVars, enthVars, eqVars>>

\* The mutable part of blk as one record, so that the functions below are
\* operators from records to records.
Blk == [fixed |-> fixed, value |-> value, dens_fixed |-> dens_fixed,
        mfc_active |-> mfc_active, mfc_access |-> mfc_access, params |-> params]

\* The parameters of the two packages: reference state, molecular weights,
\* heat-capacity coefficients and heats of formation (HDAParameterData),
\* Arrhenius constant, activation energy and equilibrium constant (the
\* reaction package).
ParamNames ==
    {"pressure_ref", "temperature_ref", "mw_comp", "cp_coeff",
     "enth_mol_form_vap_comp_ref", "arrhenius", "energy_activation", "k_eq"}

\* The Params declared mutable=True.
MutableParams == {"pressure_ref", "temperature_ref"}

\* What define_basic_parameters and its companions set at build time.  A
\* parameter's value is a token of Vals: InitVal stands for the number the
\* declaration gives it, any other token for a number set later.
define_basic_parameters == [n \in ParamNames |-> InitVal]

NoFlags == [none |-> TRUE, was |-> [k \in BlockIdx |-> [v \in SVI |-> FALSE]]]

\* state_args: a dict from names to values, here the set of names it has an
\* entry for and one value given to each of them (mole_frac_comp maps every
\* component to it).  None is the dict with no entry.
NoStateArgs == [names |-> {}, val |-> InitVal]

\* The dicts tried: None, one naming every state variable, one naming only
\* flow_mol, one naming mole_frac_comp and temperature.
StateArgsNames ==
    {{}, return_state_var_dict, {"flow_mol"}, {"mole_frac_comp", "temperature"}}

StateArgsSet ==
    {NoStateArgs} \cup [names : StateArgsNames \ {{}}, val : Vals]

\* add_mole_fraction_constraint: the constraint is built only for a block
\* whose state is not externally defined.
add_mole_fraction_constraint(ds) == ds = FALSE

\* ------------------------------------------------------- framework calls
\* Mutant: a variable state_args names is set to that value even when it is
\* already fixed.
fix_state_vars_overwrite(b, sa) ==
    [blk |-> [b EXCEPT
                !.fixed = [k \in BlockIdx |-> [v \in SVI |->
                             IF k \in keys THEN TRUE ELSE b.fixed[k][v]]],
                !.value = [k \in BlockIdx |-> [v \in SVI |->
                             IF k \in keys /\ v[1] \in sa.names
                             THEN sa.val ELSE b.value[k][v]]]],
     flags |-> [none |-> FALSE,
                was |-> [k \in BlockIdx |-> [v \in SVI |->
                             k \in keys /\ b.fixed[k][v]]]]]

\* idaes.core.util.initialization.fix_state_vars(blk, state_args): records
\* is_fixed() of every state variable, then fixes each unfixed one at
\* state_args[n] when state_args names it, else at its current value.
fix_state_vars(b, sa) ==
    [blk |-> [b EXCEPT
                !.fixed = [k \in BlockIdx |-> [v \in SVI |->
                             IF k \in keys THEN TRUE ELSE b.fixed[k][v]]],
                !.value = [k \in BlockIdx |-> [v \in SVI |->
                             IF k \in keys /\ ~b.fixed[k][v] /\ v[1] \in sa.names
                             THEN sa.val ELSE b.value[k][v]]]],
     flags |-> [none |-> FALSE,
                was |-> [k \in BlockIdx |-> [v \in SVI |->
                             k \in keys /\ b.fixed[k][v]]]]]

\* Mutant: unfixes every state variable, whatever the flags say.
revert_state_vars_unfix_all(b, fl) ==
    [b EXCEPT !.fixed = [k \in BlockIdx |-> [v \in SVI |->
                 IF k \in keys THEN FALSE ELSE b.fixed[k][v]]]]

\* idaes.core.util.initialization.revert_state_vars(blk, flags): unfixes
\* every state variable whose flag says it was not fixed.
revert_state_vars(b, fl) ==
    [b EXCEPT !.fixed = [k \in BlockIdx |-> [v \in SVI |->
                 IF k \in keys /\ ~fl.was[k][v] THEN FALSE ELSE b.fixed[k][v]]]]

\* idaes.core.util.model_statistics.degrees_of_freedom(blk[k]): the unfixed
\* variables that appear in active equality constraints minus the active
\* equality constraints.  ideal_gas_eq relates pressure, temperature and
\* dens_mol; mole_fraction_constraint relates the mole fractions.
degrees_of_freedom(b, k) ==
    LET mfcOn == has_mfc[k] /\ b.mfc_active[k]
        inEq == {<<"pressure", 0>>, <<"temperature", 0>>}
                    \cup (IF mfcOn THEN {<<"mole_frac_comp", j>> : j \in Comps} ELSE {})
        free == Cardinality({v \in inEq : ~b.fixed[k][v]})
                    + (IF b.dens_fixed[k] THEN 0 ELSE 1)
        eqs == 1 + (IF mfcOn THEN 1 ELSE 0)
    IN free - eqs

\* idaes.core.util.model_statistics.number_unfixed_variables(blk[k]): the
\* unfixed variables of the block, whether or not a constraint mentions
\* them: the state variables and dens_mol.
number_unfixed_variables(b, k) ==
    Cardinality({v \in SVI : ~b.fixed[k][v]}) + (IF b.dens_fixed[k] THEN 0 ELSE 1)

\* ------------------------------------------------ the protocol's functions
\* Mutant: the state variables are fixed whatever state_vars_fixed says.
prepare_state_always_fixes(b, sa, svf) ==
    LET fx == fix_state_vars(b, sa)
        off == {k \in keys : defined_state[k] = FALSE}
        b2 == [fx.blk EXCEPT
                 !.mfc_active = [k \in BlockIdx |->
                                    IF k \in off THEN FALSE ELSE fx.blk.mfc_active[k]],
                 !.mfc_access = fx.blk.mfc_access \cup off]
        bad == \E k \in keys : degrees_of_freedom(b2, k) # 0
    IN  IF bad
        THEN [blk |-> b2, flags |-> NoFlags, exc |-> "Exception"]
        ELSE [blk |-> b2, flags |-> fx.flags, exc |-> "none"]

\* Mutant: a failed degrees-of-freedom check puts the block back as it was.
prepare_state_rolls_back(b, sa, svf) ==
    LET fx == IF svf = FALSE
              THEN fix_state_vars(b, sa)
              ELSE [blk |-> b, flags |-> NoFlags]
        off == {k \in keys : defined_state[k] = FALSE}
        b2 == [fx.blk EXCEPT
                 !.mfc_active = [k \in BlockIdx |->
                                    IF k \in off THEN FALSE ELSE fx.blk.mfc_active[k]],
                 !.mfc_access = fx.blk.mfc_access \cup off]
        bad == \E k \in keys : degrees_of_freedom(b2, k) # 0
    IN  IF bad
        THEN [blk |-> b, flags |-> NoFlags, exc |-> "Exception"]
        ELSE [blk |-> b2, flags |-> fx.flags, exc |-> "none"]

\* Mutant: the degrees-of-freedom loop is missing.
prepare_state_unchecked(b, sa, svf) ==
    LET fx == IF svf = FALSE
              THEN fix_state_vars(b, sa)
              ELSE [blk |-> b, flags |-> NoFlags]
        off == {k \in keys : defined_state[k] = FALSE}
        b2 == [fx.blk EXCEPT
                 !.mfc_active = [k \in BlockIdx |->
                                    IF k \in off THEN FALSE ELSE fx.blk.mfc_active[k]],
                 !.mfc_access = fx.blk.mfc_access \cup off]
    IN  [blk |-> b2, flags |-> fx.flags, exc |-> "none"]

\* Mutant: the comparison reads "> 0" instead of "!= 0".
prepare_state_positive_only(b, sa, svf) ==
    LET fx == IF svf = FALSE
              THEN fix_state_vars(b, sa)
              ELSE [blk |-> b, flags |-> NoFlags]
        off == {k \in keys : defined_state[k] = FALSE}
        b2 == [fx.blk EXCEPT
                 !.mfc_active = [k \in BlockIdx |->
                                    IF k \in off THEN FALSE ELSE fx.blk.mfc_active[k]],
                 !.mfc_access = fx.blk.mfc_access \cup off]
        bad == \E k \in keys : degrees_of_freedom(b2, k) > 0
    IN  IF bad
        THEN [blk |-> b2, flags |-> NoFlags, exc |-> "Exception"]
        ELSE [blk |-> b2, flags |-> fx.flags, exc |-> "none"]

\* prepare_state(blk, state_args, state_vars_fixed)
prepare_state(b, sa, svf) ==
    LET fx == IF svf = FALSE
              THEN fix_state_vars(b, sa)
              ELSE [blk |-> b, flags |-> NoFlags]
        off == {k \in keys : defined_state[k] = FALSE}
        b2 == [fx.blk EXCEPT
                 !.mfc_active = [k \in BlockIdx |->
                                    IF k \in off THEN FALSE ELSE fx.blk.mfc_active[k]],
                 !.mfc_access = fx.blk.mfc_access \cup off]
        bad == \E k \in keys : degrees_of_freedom(b2, k) # 0
    IN  IF bad
        THEN [blk |-> b2, flags |-> NoFlags, exc |-> "Exception"]
        ELSE [blk |-> b2, flags |-> fx.flags, exc |-> "none"]

\* Mutant: the solve step writes a value into every state variable.
initialize_state_moves_state(b) ==
    LET b1 == [b EXCEPT !.value = [k \in BlockIdx |-> [v \in SVI |->
                             IF k \in keys THEN MaxVal ELSE b.value[k][v]]]]
    IN  IF keys # {}
        THEN [blk |-> b1, solver_called |-> FALSE, exc |-> "NameError"]
        ELSE [blk |-> b1, solver_called |-> FALSE, exc |-> "AttributeError"]

\* Mutant: the solve step puts the parameters back to their build-time values.
initialize_state_resets_params(b) ==
    IF keys # {}
    THEN [blk |-> [b EXCEPT !.params = define_basic_parameters],
          solver_called |-> FALSE, exc |-> "NameError"]
    ELSE [blk |-> [b EXCEPT !.params = define_basic_parameters],
          solver_called |-> FALSE, exc |-> "AttributeError"]

\* initialize_state(blk, solver, init_log, solve_log).  The name called in the
\* counting loop, number_unifxed_variables, is not the imported
\* number_unfixed_variables: the first iteration raises NameError, outside
\* the try.  With no sub-block the loop body never runs, free_vars stays 0,
\* res is None, and the log line calls str.formate, which does not exist:
\* AttributeError.  solve_indexed_blocks is reached on neither path.
initialize_state(b) ==
    IF keys # {}
    THEN [blk |-> b, solver_called |-> FALSE, exc |-> "NameError"]
    ELSE [blk |-> b, solver_called |-> FALSE, exc |-> "AttributeError"]

\* Mutant: the reactivation loop is missing.
unfix_state_no_activate(b, fl) ==
    IF ~fl.none THEN revert_state_vars(b, fl) ELSE b

\* Mutant: the defined_state test is missing from the reactivation loop.
unfix_state_every_block(b, fl) ==
    LET on == keys
        b1 == [b EXCEPT
                 !.mfc_active = [k \in BlockIdx |->
                                    IF k \in on THEN TRUE ELSE b.mfc_active[k]],
                 !.mfc_access = b.mfc_access \cup on]
    IN  IF ~fl.none THEN revert_state_vars(b1, fl) ELSE b1

\* unfix_state(blk, flags, outlvl)
unfix_state(b, fl) ==
    LET on == {k \in keys : defined_state[k] = FALSE}
        b1 == [b EXCEPT
                 !.mfc_active = [k \in BlockIdx |->
                                    IF k \in on THEN TRUE ELSE b.mfc_active[k]],
                 !.mfc_access = b.mfc_access \cup on]
    IN  IF ~fl.none THEN revert_state_vars(b1, fl) ELSE b1

\* _HDAStateBlock.release_state(blk, flags, outlvl)
release_state(b, fl) == unfix_state(b, fl)

\* Mutant: the else branch is missing, release_state is never called.
restore_state_never_releases(b, fl, hs) ==
    [blk |-> b, ret |-> fl, released |-> FALSE]

\* restore_state(blk, flags, hold_state)
restore_state(b, fl, hs) ==
    IF hs = TRUE
    THEN [blk |-> b, ret |-> fl, released |-> FALSE]
    ELSE [blk |-> release_state(b, fl), ret |-> NoFlags, released |-> TRUE]

\* ------------------------------------------------------------------ Init
NoArgs == [sa |-> NoStateArgs, svf |-> FALSE, hs |-> FALSE]
NoPre == [fixed |-> [k \in BlockIdx |-> [v \in SVI |-> FALSE]],
          value |-> [k \in BlockIdx |-> [v \in SVI |-> InitVal]],
          dens_fixed |-> [k \in BlockIdx |-> FALSE],
          mfc_active |-> [k \in BlockIdx |-> FALSE]]

\* After construction: every state variable free at its initial value,
\* dens_mol free, every constraint that exists active.
InitMain ==
    /\ keys \in SUBSET BlockIdx
    /\ defined_state \in [BlockIdx -> BOOLEAN]
    /\ \A k \in BlockIdx : k \notin keys => defined_state[k] = TRUE
    /\ has_mfc = [k \in BlockIdx |->
                    k \in keys /\ add_mole_fraction_constraint(defined_state[k])]
    /\ fixed = [k \in BlockIdx |-> [v \in SVI |-> FALSE]]
    /\ value = [k \in BlockIdx |-> [v \in SVI |-> InitVal]]
    /\ dens_fixed = [k \in BlockIdx |-> FALSE]
    /\ mfc_active = has_mfc
    /\ mfc_access = {}
    /\ params = define_basic_parameters
    /\ pc = "idle" /\ ctx = "none" /\ entry = "none"
    /\ args = NoArgs /\ flags = NoFlags /\ trace = <<>> /\ exc = "none"
    /\ pre = NoPre
    /\ solver_calls = 0
    /\ userOps = 0
    /\ runs = 0

SetBlk(b) ==
    /\ fixed' = b.fixed
    /\ value' = b.value
    /\ dens_fixed' = b.dens_fixed
    /\ mfc_active' = b.mfc_active
    /\ mfc_access' = b.mfc_access
    /\ params' = b.params

\* ------------------------------------------------- calls of the flowsheet
UserGuard == pc = "idle" /\ ctx = "none" /\ userOps < MaxUserOps

UserDone ==
    /\ userOps' = userOps + 1
    /\ pc' = "idle" /\ ctx' = "none" /\ entry' = "none"
    /\ args' = NoArgs /\ flags' = NoFlags /\ trace' = <<>> /\ exc' = "none"
    /\ pre' = NoPre
    /\ solver_calls' = 0
    /\ UNCHANGED <<demoVars, enthVars, eqVars, configVars, runs>>

\* v.fix(val)
UserFix(k, v, val) ==
    /\ UserGuard
    /\ k \in keys
    /\ ~fixed[k][v] \/ value[k][v] # val
    /\ fixed' = [fixed EXCEPT ![k][v] = TRUE]
    /\ value' = [value EXCEPT ![k][v] = val]
    /\ UNCHANGED <<dens_fixed, mfc_active, mfc_access, params>>
    /\ UserDone

\* v.unfix()
UserUnfix(k, v) ==
    /\ UserGuard
    /\ k \in keys
    /\ fixed[k][v]
    /\ fixed' = [fixed EXCEPT ![k][v] = FALSE]
    /\ UNCHANGED <<value, dens_fixed, mfc_active, mfc_access, params>>
    /\ UserDone

\* blk[k].dens_mol.fix() / .unfix()
UserFixDens(k) ==
    /\ UserGuard
    /\ k \in keys
    /\ dens_fixed' = [dens_fixed EXCEPT ![k] = ~dens_fixed[k]]
    /\ UNCHANGED <<fixed, value, mfc_active, mfc_access, params>>
    /\ UserDone

\* blk[k].mole_fraction_constraint.deactivate() / .activate()
UserToggleConstraint(k) ==
    /\ UserGuard
    /\ k \in keys
    /\ has_mfc[k]
    /\ mfc_active' = [mfc_active EXCEPT ![k] = ~mfc_active[k]]
    /\ UNCHANGED <<fixed, value, dens_fixed, mfc_access, params>>
    /\ UserDone

\* m.fs.params.<n> = val, for a Param declared mutable
UserSetParam(n, val) ==
    /\ UserGuard
    /\ n \in MutableParams
    /\ params[n] # val
    /\ params' = [params EXCEPT ![n] = val]
    /\ UNCHANGED <<fixed, value, dens_fixed, mfc_active, mfc_access>>
    /\ UserDone

\* ------------------------------------------- _HDAStateBlock.initialize
\* Line 563: flags = prepare_state(blk, state_args, state_vars_fixed).  An
\* exception leaves initialize at once; its local flags are gone.
Initialize_Prepare(sa, svf, hs) ==
    /\ pc = "idle" /\ ctx = "none" /\ runs < MaxRuns
    /\ runs' = runs + 1
    /\ LET r == prepare_state(Blk, sa, svf) IN
        /\ SetBlk(r.blk)
        /\ exc' = r.exc
        /\ flags' = r.flags
        /\ IF r.exc = "none"
           THEN pc' = "prepared" /\ ctx' = "initialize"
           ELSE pc' = "idle" /\ ctx' = "none"
    /\ entry' = "initialize"
    /\ args' = [sa |-> sa, svf |-> svf, hs |-> hs]
    /\ trace' = <<"prepare">>
    /\ pre' = [fixed |-> fixed, value |-> value,
               dens_fixed |-> dens_fixed, mfc_active |-> mfc_active]
    /\ solver_calls' = 0
    /\ UNCHANGED <<demoVars, enthVars, eqVars, configVars, userOps>>

\* Lines 564-567: initialize_state, then restore_state, whose return value
\* initialize drops; initialize itself returns None.  As initialize_state
\* always raises, no call gets to line 565.
Initialize_Resume ==
    /\ ctx = "initialize"
    /\ \/ /\ pc = "prepared"
          /\ LET r == initialize_state(Blk) IN
              /\ SetBlk(r.blk)
              /\ exc' = r.exc
              /\ solver_calls' = solver_calls + (IF r.solver_called THEN 1 ELSE 0)
              /\ trace' = Append(trace, "solve")
              /\ IF r.exc = "none"
                 THEN pc' = "solved" /\ ctx' = "initialize" /\ flags' = flags
                 ELSE pc' = "idle" /\ ctx' = "none" /\ flags' = NoFlags
       \/ /\ pc = "solved"
          /\ LET r == restore_state(Blk, flags, args.hs) IN
              /\ SetBlk(r.blk)
              /\ trace' = IF r.released
                          THEN trace \o <<"restore", "release">>
                          ELSE Append(trace, "restore")
          /\ exc' = "none"
          /\ solver_calls' = solver_calls
          /\ pc' = "idle" /\ ctx' = "none" /\ flags' = NoFlags
    /\ UNCHANGED <<demoVars, enthVars, eqVars, configVars, entry, args, pre, userOps, runs>>

\* ------------------------- the functions called one by one from a script
Script_Prepare(sa, svf) ==
    /\ pc = "idle" /\ ctx = "none" /\ runs < MaxRuns
    /\ runs' = runs + 1
    /\ LET r == prepare_state(Blk, sa, svf) IN
        /\ SetBlk(r.blk)
        /\ exc' = r.exc
        /\ flags' = r.flags
        /\ IF r.exc = "none"
           THEN pc' = "prepared" /\ ctx' = "script"
           ELSE pc' = "idle" /\ ctx' = "none"
    /\ entry' = "script"
    /\ args' = [sa |-> sa, svf |-> svf, hs |-> FALSE]
    /\ trace' = <<"prepare">>
    /\ pre' = [fixed |-> fixed, value |-> value,
               dens_fixed |-> dens_fixed, mfc_active |-> mfc_active]
    /\ solver_calls' = 0
    /\ UNCHANGED <<demoVars, enthVars, eqVars, configVars, userOps>>

\* initialize_state called from the script, which catches what it raises.
Script_Solve ==
    /\ ctx = "script" /\ pc = "prepared"
    /\ LET r == initialize_state(Blk) IN
        /\ SetBlk(r.blk)
        /\ exc' = r.exc
        /\ solver_calls' = solver_calls + (IF r.solver_called THEN 1 ELSE 0)
    /\ pc' = "solve_done"
    /\ trace' = Append(trace, "solve")
    /\ UNCHANGED <<demoVars, enthVars, eqVars, configVars, ctx, entry, args, flags, pre, userOps, runs>>

\* restore_state(blk, flags, hold_state) with the flags the script holds.
Script_Restore(hs) ==
    /\ ctx = "script" /\ pc \in {"prepared", "solve_done"}
    /\ LET r == restore_state(Blk, flags, hs) IN
        /\ SetBlk(r.blk)
        /\ IF r.released
           THEN /\ trace' = trace \o <<"restore", "release">>
                /\ pc' = "idle" /\ ctx' = "none" /\ flags' = NoFlags
           ELSE /\ trace' = Append(trace, "restore")
                /\ pc' = "held" /\ ctx' = "script" /\ flags' = r.ret
    /\ exc' = "none"
    /\ args' = [args EXCEPT !.hs = hs]
    /\ UNCHANGED <<demoVars, enthVars, eqVars, configVars, entry, pre, solver_calls, userOps, runs>>

\* blk.release_state(flags) with the flags the script holds.
Script_Release ==
    /\ ctx = "script" /\ pc \in {"prepared", "solve_done", "held"}
    /\ SetBlk(release_state(Blk, flags))
    /\ trace' = Append(trace, "release")
    /\ exc' = "none"
    /\ pc' = "idle" /\ ctx' = "none" /\ flags' = NoFlags
    /\ UNCHANGED <<demoVars, enthVars, eqVars, configVars, entry, args, pre, solver_calls, userOps, runs>>

\* ------------------- Reaction_Prop_Packages_Tutorial: the demonstration
\* The components of the HDA property package (define_components_and_phases).
DemoComps == {"benzene", "toluene", "hydrogen", "methane", "diphenyl"}

\* The inlet state variables the cell fixes: lines 419-426.
DemoInletVars ==
    {<<"flow_mol", "">>, <<"temperature", "">>, <<"pressure", "">>}
        \cup {<<"mole_frac_comp", j>> : j \in DemoComps}

\* m.fs.reactor.volume, fixed at line 428.
DemoVolume == <<"volume", "">>

DemoVars == DemoInletVars \cup {DemoVolume}

\* The solver's report of the flowsheet once the cell has fixed DemoVars:
\* "Total number of variables" and "Total number of equality constraints".
DemoFreeAfterFix == 24
DemoEqualities == 24

\* Mutant: the reactor volume is not counted among the variables.
demo_degrees_of_freedom_inlet_only(fx) ==
    (DemoFreeAfterFix + Cardinality(DemoInletVars \ fx)) - DemoEqualities

\* degrees_of_freedom(m): the unfixed variables in active equalities minus
\* the active equalities.  Every variable of DemoVars is one of them.
demo_degrees_of_freedom(fx) ==
    (DemoFreeAfterFix + Cardinality(DemoVars \ fx)) - DemoEqualities

\* v.fix(...)
demo_fix(fx, v) == fx \cup {v}

NotPrinted == [printed |-> FALSE, dof |-> 0]

DemoIdle == demo_fixed = {} /\ demo_dof = NotPrinted

\* One of the .fix calls of lines 419-428.
Demo_Fix(v) ==
    /\ v \notin demo_fixed
    /\ demo_fixed' = demo_fix(demo_fixed, v)
    /\ demo_dof' = NotPrinted
    /\ UNCHANGED <<mainVars, enthVars, eqVars>>

\* print("Degrees of Freedom: ", degrees_of_freedom(m)): lines 402 and 430.
Demo_Print ==
    /\ ~demo_dof.printed
    /\ demo_dof' = [printed |-> TRUE, dof |-> demo_degrees_of_freedom(demo_fixed)]
    /\ UNCHANGED <<mainVars, enthVars, eqVars, demo_fixed>>

\* ------------------------------------------------------------- enth_mol
MaxTemp == 3        \* temperatures are 1..MaxTemp

Temps == 1..MaxTemp

\* Rows <<A, B, C, D, enth_mol_form_vap_comp_ref>> a component may have.
CoeffRows == {<<-3, 4, -1, 1, -8>>, <<2, 1, -2, 1, 0>>, <<1, 0, 0, -1, 5>>}

RECURSIVE SumOver(_, _)
SumOver(S, f) ==
    IF S = {} THEN 0
    ELSE LET j == CHOOSE x \in S : TRUE IN f[j] + SumOver(S \ {j}, f)

\* Mutant: the linear term reads A * T, without the reference temperature.
enth_comp_no_ref(in, j) ==
    LET T == in.T
        Tr == in.Tr
        c == in.coeff[j]
    IN    3 * c[4] * (T*T*T*T - Tr*Tr*Tr*Tr)
        + 4 * c[3] * (T*T*T - Tr*Tr*Tr)
        + 6 * c[2] * (T*T - Tr*Tr)
        + 12 * c[1] * T
        + 12 * c[5]

\* The bracket of enth_rule for component j, times 12 so that D/4, C/3 and
\* B/2 stay integers.
enth_comp(in, j) ==
    LET T == in.T
        Tr == in.Tr
        c == in.coeff[j]
    IN    3 * c[4] * (T*T*T*T - Tr*Tr*Tr*Tr)
        + 4 * c[3] * (T*T*T - Tr*Tr*Tr)
        + 6 * c[2] * (T*T - Tr*Tr)
        + 12 * c[1] * (T - Tr)
        + 12 * c[5]

\* enth_rule: the sum over component_list of mole_frac_comp[j] times the bracket.
enth_rule(in) ==
    SumOver(Comps, [j \in Comps |-> in.x[j] * enth_comp(in, j)])

EnthInputs ==
    [T : Temps, Tr : Temps, coeff : [Comps -> CoeffRows], x : [Comps -> Vals]]

NoValue == [set |-> FALSE, val |-> 0]

EnthIdle ==
    /\ enth_in = [T |-> 1, Tr |-> 1,
                  coeff |-> [j \in Comps |-> <<1, 0, 0, -1, 5>>],
                  x |-> [j \in Comps |-> InitVal]]
    /\ enth_out = NoValue

\* The expression enth_mol is evaluated.
Enth_Eval ==
    /\ ~enth_out.set
    /\ enth_out' = [set |-> TRUE, val |-> enth_rule(enth_in)]
    /\ UNCHANGED <<mainVars, demoVars, eqVars, enth_in>>

\* temperature takes another value.
Enth_SetTemperature(t) ==
    /\ t # enth_in.T
    /\ enth_in' = [enth_in EXCEPT !.T = t]
    /\ enth_out' = NoValue
    /\ UNCHANGED <<mainVars, demoVars, eqVars>>

\* ------------------------------------------------ equilibrium_constraint
\* Pressure is counted in units of 10 kPa, mole fractions in tenths; every
\* quantity is an exact fraction <<numerator, denominator>> in lowest terms.
MaxFrac == 3        \* mole fractions are 0/10 .. MaxFrac/10
MaxPressure == 20   \* pressures are MinPressure..MaxPressure (x 10 kPa)

\* The lower bound of pressure, bounds=(101325, 400000): the first whole
\* multiple of 10 kPa inside the bounds.
MinPressure == 11

\* k_eq = Param(initialize=10000), in units of 10 kPa.
k_eq == 1

\* The denominator of a mole fraction counted in tenths.
Tenth == 10

RECURSIVE Gcd(_, _)
Gcd(a, b) == IF b = 0 THEN a ELSE Gcd(b, a % b)

\* n/d in lowest terms (n >= 0, d > 0).
Rat(n, d) == LET g == Gcd(n, d) IN <<n \div g, d \div g>>
RatMul(p, q) == Rat(p[1] * q[1], p[2] * q[2])
\* p / q, for q other than zero.
RatDiv(p, q) == Rat(p[1] * q[2], p[2] * q[1])

mole_frac_comp(in, j) == Rat(in.x[j], Tenth)
pressure(in) == Rat(in.P, 1)

\* Mutant: the right-hand side has pressure, not pressure**2.
equilibrium_constraint_linear_pressure(in) ==
    LET lhs == RatMul(RatMul(Rat(k_eq, 1), mole_frac_comp(in, "benzene")),
                      pressure(in))
        rhs == RatMul(RatMul(mole_frac_comp(in, "diphenyl"),
                             mole_frac_comp(in, "hydrogen")),
                      pressure(in))
    IN  [defined |-> TRUE, holds |-> lhs = rhs]

\* define_equilibrium_expression: k_eq * x_benzene * P ==
\* x_diphenyl * x_hydrogen * P**2.  Nothing is divided, so both sides have
\* a value for every input.
equilibrium_constraint(in) ==
    LET lhs == RatMul(RatMul(Rat(k_eq, 1), mole_frac_comp(in, "benzene")),
                      pressure(in))
        rhs == RatMul(RatMul(mole_frac_comp(in, "diphenyl"),
                             mole_frac_comp(in, "hydrogen")),
                      RatMul(pressure(in), pressure(in)))
    IN  [defined |-> TRUE, holds |-> lhs = rhs]

\* The form of the text above the cell:
\* k_eq = (x_diphenyl * x_hydrogen * P**2) / (x_benzene * P).  The quotient
\* has no value when x_benzene * P is zero.
equilibrium_ratio(in) ==
    LET num == RatMul(RatMul(mole_frac_comp(in, "diphenyl"),
                             mole_frac_comp(in, "hydrogen")),
                      RatMul(pressure(in), pressure(in)))
        den == RatMul(mole_frac_comp(in, "benzene"), pressure(in))
    IN  IF den[1] = 0
        THEN [defined |-> FALSE, holds |-> FALSE]
        ELSE [defined |-> TRUE, holds |-> Rat(k_eq, 1) = RatDiv(num, den)]

EqComps == {"benzene", "diphenyl", "hydrogen"}

EqInputs == [x : [EqComps -> 0..MaxFrac], P : MinPressure..MaxPressure]

NotEvaluated ==
    [set |-> FALSE,
     constraint |-> [defined |-> FALSE, holds |-> FALSE],
     ratio |-> [defined |-> FALSE, holds |-> FALSE]]

EqIdle ==
    /\ eq_in = [x |-> [j \in EqComps |-> 0], P |-> MinPressure]
    /\ eq_out = NotEvaluated

\* The constraint (and, beside it, the ratio of the text) is evaluated at
\* the current mole fractions and pressure.
Eq_Eval ==
    /\ ~eq_out.set
    /\ eq_out' = [set |-> TRUE,
                  constraint |-> equilibrium_constraint(eq_in),
                  ratio |-> equilibrium_ratio(eq_in)]
    /\ UNCHANGED <<mainVars, demoVars, enthVars, eq_in>>

\* state_ref.mole_frac_comp["benzene"] takes another value.
Eq_SetBenzene(x) ==
    /\ x # eq_in.x["benzene"]
    /\ eq_in' = [eq_in EXCEPT !.x["benzene"] = x]
    /\ eq_out' = NotEvaluated
    /\ UNCHANGED <<mainVars, demoVars, enthVars>>

\* -------------------------------------------------------- specifications
Next ==
    \/ \E k \in BlockIdx, v \in SVI, val \in Vals : UserFix(k, v, val)
    \/ \E k \in BlockIdx, v \in SVI : UserUnfix(k, v)
    \/ \E k \in BlockIdx : UserFixDens(k)
    \/ \E k \in BlockIdx : UserToggleConstraint(k)
    \/ \E n \in MutableParams, val \in Vals : UserSetParam(n, val)
    \/ \E sa \in StateArgsSet, svf \in BOOLEAN, hs \in BOOLEAN :
            Initialize_Prepare(sa, svf, hs)
    \/ Initialize_Resume
    \/ \E sa \in StateArgsSet, svf \in BOOLEAN : Script_Prepare(sa, svf)
    \/ Script_Solve
    \/ \E hs \in BOOLEAN : Script_Restore(hs)
    \/ Script_Release

Init == InitMain /\ DemoIdle /\ EnthIdle /\ EqIdle

Spec == Init /\ [][Next]_vars

\* The demonstration flowsheet alone: no state block is being initialized.
InitQuiet == InitMain /\ keys = {}

InitDemo == InitQuiet /\ DemoIdle /\ EnthIdle /\ EqIdle

NextDemo ==
    \/ \E v \in DemoVars : Demo_Fix(v)
    \/ Demo_Print

SpecDemo == InitDemo /\ [][NextDemo]_vars

\* The enthalpy expression alone, over every input of EnthInputs.
InitEnth ==
    /\ InitQuiet /\ DemoIdle /\ EqIdle
    /\ enth_in \in EnthInputs
    /\ enth_in.T = 1
    /\ enth_out = NoValue

NextEnth ==
    \/ Enth_Eval
    \/ \E t \in Temps : Enth_SetTemperature(t)

SpecEnth == InitEnth /\ [][NextEnth]_vars

\* The equilibrium relation alone, over every input of EqInputs.
InitEq ==
    /\ InitQuiet /\ DemoIdle /\ EnthIdle
    /\ eq_in \in EqInputs
    /\ eq_in.x["benzene"] = 0
    /\ eq_out = NotEvaluated

NextEq ==
    \/ Eq_Eval
    \/ \E x \in 0..MaxFrac : Eq_SetBenzene(x)

SpecEq == InitEq /\ [][NextEq]_vars

\* ------------------------------------------------------------- properties
Range(seq) == {seq[i] : i \in 1..Len(seq)}
Count(seq, x) == Cardinality({i \in 1..Len(seq) : seq[i] = x})
EndsWith(seq, tail) ==
    /\ Len(seq) >= Len(tail)
    /\ SubSeq(seq, Len(seq) - Len(tail) + 1, Len(seq)) = tail

\* prepare_state (state_vars_fixed=False), initialize_state and release with
\* the flags of that prepare_state have just run, in that order.
RoundTripDone ==
    /\ entry = "script" /\ pc = "idle"
    /\ args.svf = FALSE
    /\ trace \in {<<"prepare", "solve", "release">>,
                  <<"prepare", "solve", "restore", "release">>}

C2_DofFailureIsFatal ==
    (/\ entry = "initialize"
     /\ trace # <<>>
     /\ \E k \in keys : degrees_of_freedom(Blk, k) # 0)
        => /\ pc = "idle" /\ ctx = "none"
           /\ exc = "Exception"
           /\ trace = <<"prepare">>
           /\ flags.none

C2_Witness ==
    /\ entry = "initialize"
    /\ exc = "Exception"
    /\ trace = <<"prepare">>
    /\ \E k \in keys : degrees_of_freedom(Blk, k) # 0

\* C3: whenever prepare has returned normally, every sub-block with
\* defined_state False has its mole_fraction_constraint inactive and has 0
\* degrees of freedom.
C3_PreparedBlocks ==
    pc = "prepared" =>
        \A k \in keys :
            defined_state[k] = FALSE =>
                /\ has_mfc[k]
                /\ ~mfc_active[k]
                /\ degrees_of_freedom(Blk, k) = 0

C3_Witness ==
    /\ pc = "prepared"
    /\ \E k \in keys : defined_state[k] = FALSE

\* C4: a sub-block with defined_state True owns no mole_fraction_constraint,
\* and no step of any run has evaluated that attribute of it.
C4_DefinedStateUntouched ==
    \A k \in keys :
        defined_state[k] = TRUE => ~has_mfc[k] /\ k \notin mfc_access

C4_Witness ==
    /\ \E k \in keys : defined_state[k] = TRUE
    /\ \E k \in keys : defined_state[k] = FALSE /\ k \in mfc_access
    /\ EndsWith(trace, <<"solve", "restore", "release">>)

\* C5 as stated: once an initialize call with hold_state=True (and
\* state_vars_fixed=False) whose prepare returned normally is over, restore
\* has run, the caller holds non-null flags and every state variable is fixed.
C5_HoldStateHandsFlagsToCaller ==
    (/\ entry = "initialize" /\ ctx = "none"
     /\ args.hs = TRUE /\ args.svf = FALSE
     /\ trace # <<>> /\ exc # "Exception")
        => /\ "restore" \in Range(trace)
           /\ ~flags.none
           /\ \A k \in keys, v \in SVI : fixed[k][v]

\* restore_state has been called with hold_state=False.
RestoreNoHold == "restore" \in Range(trace) /\ args.hs = FALSE

C7_SolveFailureStaysInside ==
    (/\ entry = "initialize" /\ ctx = "none"
     /\ "solve" \in Range(trace))
        => /\ exc = "none"
           /\ "restore" \in Range(trace)

\* C10 as stated: an initialize call with hold_state=False whose prepare
\* returned normally has, when it is over, run prepare, solve, restore and
\* release, once each and in that order.
C10_CallRunsTheFourSteps ==
    (/\ entry = "initialize" /\ ctx = "none"
     /\ args.hs = FALSE
     /\ trace # <<>> /\ exc # "Exception")
        => trace = <<"prepare", "solve", "restore", "release">>

\* C8 as stated: the flowsheet shows 9 degrees of freedom before anything is
\* fixed and 0 once the inlet's flow, temperature, pressure and five mole
\* fractions are fixed.
C8_InletFixesAll ==
    demo_dof.printed =>
        /\ demo_fixed = {} => demo_dof.dof = 9
        /\ DemoInletVars \subseteq demo_fixed => demo_dof.dof = 0

\* C8 amended: the flowsheet shows 9 degrees of freedom before anything is
\* fixed, 1 once exactly the eight inlet state variables are fixed, and 0 once
\* the reactor volume is fixed as well.
C8_InletAndVolumeFixAll ==
    demo_dof.printed =>
        /\ demo_fixed = {} => demo_dof.dof = 9
        /\ demo_fixed = DemoInletVars => demo_dof.dof = 1
        /\ demo_fixed = DemoInletVars \cup {DemoVolume} => demo_dof.dof = 0

C8_Witness ==
    /\ demo_dof.printed
    /\ demo_fixed = DemoInletVars \cup {DemoVolume}
    /\ demo_dof.dof = 0

\* C9: with temperature equal to the reference temperature, the bracket of
\* every component is its heat of formation at the reference state, and the
\* value of enth_mol is the sum of mole fraction times heat of formation
\* (both times 12, the scale of enth_comp).
C9_EnthalpyAtReference ==
    (enth_out.set /\ enth_in.T = enth_in.Tr) =>
        /\ \A j \in Comps : enth_comp(enth_in, j) = 12 * enth_in.coeff[j][5]
        /\ enth_out.val =
              SumOver(Comps, [j \in Comps |-> enth_in.x[j] * 12 * enth_in.coeff[j][5]])

C9_Witness ==
    /\ enth_out.set
    /\ enth_in.T = enth_in.Tr
    /\ enth_in.T > 1
    /\ \E j \in Comps : enth_in.x[j] > 0 /\ enth_in.coeff[j][1] # 0
    /\ enth_out.val # 0

\* free_vars of initialize_state as its loop is written to compute it: the
\* sum over blk.keys() of number_unfixed_variables(blk[k]).
free_vars(b) ==
    SumOver(keys, [k \in keys |-> number_unfixed_variables(b, k)])

\* An initialize call has run its solve step (nothing runs after it).
InitializeSolved ==
    entry = "initialize" /\ trace = <<"prepare", "solve">>

\* C11 as stated: once the solve step of an initialize call has run, the
\* solver has been invoked on the indexed block if the unfixed variables
\* counted over all sub-blocks after prepare are more than zero, and has not
\* been invoked at all if that count is zero.
C11_SolverRunsIffFreeVariables ==
    InitializeSolved =>
        /\ free_vars(Blk) > 0 => solver_calls >= 1
        /\ free_vars(Blk) = 0 => solver_calls = 0

\* C12 as stated: an initialize call over a block with one sub-block or more,
\* whose prepare returned normally, has when it is over invoked the solver
\* exactly once, whatever the number of sub-blocks.
C12_OneBatchSolvePerCall ==
    (/\ entry = "initialize" /\ ctx = "none"
     /\ keys # {}
     /\ trace # <<>> /\ exc # "Exception")
        => solver_calls = 1

\* C13 as stated: the flags prepare made in an initialize call are used by
\* exactly one release.  Once the call is over, with hold_state=False that
\* release has run in the call; with hold_state=True it has not run yet and
\* the caller holds the flags for the one release it is to make.
C13_FlagsConsumedOnce ==
    (/\ entry = "initialize" /\ ctx = "none"
     /\ trace # <<>> /\ exc # "Exception")
        => IF args.hs = TRUE
           THEN /\ Count(trace, "release") = 0
                /\ args.svf = FALSE => ~flags.none
           ELSE Count(trace, "release") = 1

\* prepare_state with state_vars_fixed=False has just run (it may have
\* raised: the fixing comes before the degrees-of-freedom loop).
PreparedUnfixed == trace = <<"prepare">> /\ args.svf = FALSE

RunVarsFixed == trace # <<>> /\ args.svf = TRUE

\* C15: in a run with state_vars_fixed=True the flags of prepare are null,
\* and neither prepare nor a later release with those flags changes the
\* fixed/free status or the value of a state variable (nor dens_mol's
\* status).  The one thing the pair changes is the active status of
\* mole_fraction_constraint of the sub-blocks with defined_state False:
\* inactive from prepare on, active once release has run; the constraint
\* status of no other sub-block changes.
C15_PassThroughTogglesConstraintOnly ==
    RunVarsFixed =>
        /\ flags.none
        /\ fixed = pre.fixed /\ value = pre.value
        /\ dens_fixed = pre.dens_fixed
        /\ \A k \in BlockIdx :
              IF k \in keys /\ defined_state[k] = FALSE
              THEN mfc_active[k] = ("release" \in Range(trace))
              ELSE mfc_active[k] = pre.mfc_active[k]

C15_Witness ==
    /\ RunVarsFixed
    /\ EndsWith(trace, <<"release">>)
    /\ \E k \in keys : defined_state[k] = FALSE
    /\ \E k \in keys, v \in SVI : fixed[k][v]
    /\ \E k \in keys, v \in SVI : ~fixed[k][v]

\* A step of the protocol: prepare, solve, restore or release.
ProtocolStep == runs' # runs \/ Len(trace') > Len(trace)

\* The fix step of prepare: prepare_state with state_vars_fixed=False.
PrepareFixStep == runs' # runs /\ args'.svf = FALSE

\* The revert step of release: release with flags that are not null.
ReleaseRevertStep ==
    /\ Len(trace') > Len(trace)
    /\ trace'[Len(trace')] = "release"
    /\ ~flags.none

\* C16: no step of the protocol changes the value of a parameter, and a
\* step of the protocol that changes the fixed/free status of a state
\* variable is the fix step of prepare, which fixes it, or the revert step
\* of release, which frees it.
C16_ProtocolFrame ==
    [][ProtocolStep =>
          /\ params' = params
          /\ \A k \in BlockIdx, v \in SVI :
                fixed'[k][v] # fixed[k][v] =>
                    \/ PrepareFixStep /\ fixed'[k][v]
                    \/ ReleaseRevertStep /\ ~fixed'[k][v]]_vars

C16_Witness ==
    /\ RoundTripDone
    /\ params # define_basic_parameters
    /\ \E k \in keys, v \in SVI : ~fixed[k][v] /\ ~pre.fixed[k][v]

\* C17: the constraint as written, k_eq * x_benzene * P == x_diphenyl *
\* x_hydrogen * P**2, has a value for every non-negative mole fraction,
\* x_benzene = 0 included; and whenever x_benzene * P is not zero the ratio
\* form has a value too and the constraint holds exactly when
\* k_eq == (x_diphenyl * x_hydrogen * P**2) / (x_benzene * P) holds.
C17_MultipliedFormIsRatioForm ==
    eq_out.set =>
        /\ eq_out.constraint.defined
        /\ eq_in.x["benzene"] * eq_in.P # 0 =>
              /\ eq_out.ratio.defined
              /\ eq_out.constraint.holds = eq_out.ratio.holds

C17_Witness ==
    /\ eq_out.set
    /\ eq_in.x["benzene"] > 0
    /\ eq_out.constraint.holds
    /\ eq_out.ratio.holds

\* The constraint has a value where the ratio form has none.
C17_WitnessZeroBenzene ==
    /\ eq_out.set
    /\ eq_in.x["benzene"] = 0
    /\ eq_out.constraint.defined /\ ~eq_out.ratio.defined

\* An initialize call has ended with the exception of prepare's
\* degrees-of-freedom loop.
InitializeFailed ==
    entry = "initialize" /\ exc = "Exception" /\ trace = <<"prepare">>

\* C18: after an initialize call that ended with prepare's exception, what
\* prepare did is still there: with state_vars_fixed=False every state
\* variable is fixed, at the value prepare gave it; the
\* mole_fraction_constraint of every sub-block with defined_state False is
\* inactive; so a block in which prepare fixed a variable or deactivated a
\* constraint is not as it was before the call.
C18_FailedPrepareLeavesItsChanges ==
    InitializeFailed =>
        /\ args.svf = FALSE =>
              \A k \in keys, v \in SVI :
                  /\ fixed[k][v]
                  /\ value[k][v] =
                        (IF ~pre.fixed[k][v] /\ v[1] \in args.sa.names
                         THEN args.sa.val ELSE pre.value[k][v])
        /\ \A k \in keys : defined_state[k] = FALSE => ~mfc_active[k]
        /\ (args.svf = FALSE /\ \E k \in keys, v \in SVI : ~pre.fixed[k][v])
              => fixed # pre.fixed
        /\ (\E k \in keys : defined_state[k] = FALSE /\ pre.mfc_active[k])
              => mfc_active # pre.mfc_active

C18_Witness ==
    /\ InitializeFailed
    /\ args.svf = FALSE
    /\ \E k \in keys, v \in SVI :
            ~pre.fixed[k][v] /\ fixed[k][v] /\ value[k][v] # pre.value[k][v]
    /\ \E k \in keys :
            defined_state[k] = FALSE /\ pre.mfc_active[k] /\ ~mfc_active[k]

\* initialize_state, the step that is to invoke the solver, has just run
\* on the block prepare left (called by initialize or from a script).
SolveStepRan == trace = <<"prepare", "solve">>

C20_ReleaseActivatesUnconditionally ==
    EndsWith(trace, <<"release">>) =>
        \A k \in keys :
            defined_state[k] = FALSE => has_mfc[k] /\ mfc_active[k]

C20_Witness ==
    /\ EndsWith(trace, <<"release">>)
    /\ \E k \in keys :
            defined_state[k] = FALSE /\ ~pre.mfc_active[k] /\ mfc_active[k]

\* The fixed/free status and the constraint status that restore_state
\* leaves after prepare_state, as a function of the block before the call
\* and of the arguments alone: with hold_state=False what release puts
\* back, with hold_state=True what prepare set.
StatusAfterRestore ==
    /\ \A k \in keys, v \in SVI :
          fixed[k][v] = IF args.hs = TRUE
                        THEN (args.svf = FALSE \/ pre.fixed[k][v])
                        ELSE pre.fixed[k][v]
    /\ \A k \in keys :
          defined_state[k] = FALSE => mfc_active[k] = (args.hs = FALSE)

====
